---- MODULE Spec2Model ----
(***************************************************************************)
(* Model of the userfeed -> Canny importer (main script with import state).*)
(* One run of main() is a chain of steps separated by the awaits of the    *)
(* script; the files import_state.json and fake_users.json and the remote  *)
(* boards survive from one run to the next.                                *)
(***************************************************************************)
EXTENDS Integers, Sequences, FiniteSets, TLC

\* ------------------------------------------------------------------ bounds
NumRows == 2          \* rows of feature_requests_export.csv
MaxRuns == 2          \* runs of the script over the same source
MaxInitPool == 1      \* fake users in fake_users.json before run 1, if any
MaxArray == 3         \* length of the arrays shuffleArray is called with
MaxSeedPost == 9      \* posts whose identifiers shuffleArray is seeded with
MaxPages == 3         \* pages a board of the remote service lists its posts in

\* ------------------------------------------------------- values and inputs
\* JavaScript NaN; every comparison with it is false
NaN == 0 - 1

\* parseInt on the strings the model uses ("Infinity" has no leading digit)
ParseInt(s) ==
  CASE s = "0" -> 0
    [] s = "1" -> 1
    [] s = "2" -> 2
    [] s = "3" -> 3
    [] OTHER -> NaN

\* a >= b on JavaScript numbers
GreaterEq(a, b) == a # NaN /\ b # NaN /\ a >= b

\* Math.max(a, b)
MathMax(a, b) == IF a = NaN \/ b = NaN THEN NaN ELSE IF a >= b THEN a ELSE b

\* rows the source file is drawn from (a text that the script builds from
\* pieces, such as a description, is the sequence of its pieces): the first two have different
\* (title, created_at) pairs with the same concatenation, the last two
\* share a title
RowKinds ==
  { [title |-> "a1", created_at |-> "2",  likes |-> "2",
     description |-> <<"d">>],
    [title |-> "a",  created_at |-> "12", likes |-> "abc",
     description |-> <<"d">>],
    [title |-> "a",  created_at |-> "2",  likes |-> "1",
     description |-> <<"d">>] }

Sources == [1..NumRows -> RowKinds]

\* MAX_POSTS as left in the configuration
MaxPostsSettings == {"1", "Infinity"}

Configs ==
  [ INVALID_POSTS_AI_FILTERING : BOOLEAN,
    POSTS_AI_ENHANCEMENT : BOOLEAN,
    MAX_POSTS : MaxPostsSettings ]

Categories == {"feature", "bug"}

\* titles an enhancement answer can carry; NoMatch is an answer without an
\* "Enhanced Title: " line
NoMatch == "<no match>"
EnhancedTitles == {"a", NoMatch}

\* descriptions an enhancement answer can carry; NoMatch is an answer
\* without an "Enhanced Description: " part
EnhancedDescriptions == {"e", NoMatch}

\* what the two patterns match in an enhancement answer: both parts, the
\* title alone, or nothing
EnhanceAnswers ==
  { content \in [title : EnhancedTitles, description : EnhancedDescriptions] :
      content.title = NoMatch => content.description = NoMatch }

\* variant: the suffix leaves the original description out
OriginalSuffix_titleOnly(req) ==
  << "\n\nOriginal title: ", req.title >>

\* what enhanceRequest appends to the description
OriginalSuffix(req) ==
  << "\n\nOriginal title: ", req.title, "\nOriginal description: " >>
  \o req.description

\* variant: a description that is not matched gives the request's own
\* description back as it is
enhanceRequest_plainFallback(req, content) ==
  [req EXCEPT
     !.title = IF content.title = NoMatch THEN req.title ELSE content.title,
     !.description =
        IF content.description = NoMatch THEN req.description
        ELSE << content.description >> \o OriginalSuffix(req)]

\* enhanceRequest on the content of the completion, given by the title and
\* the description its two patterns match (a completion without content
\* matches neither)
enhanceRequest(req, content) ==
  LET title == IF content.title = NoMatch THEN req.title ELSE content.title
      description == IF content.description = NoMatch THEN req.description
                     ELSE << content.description >>
  IN [req EXCEPT !.title = title,
                 !.description = description \o OriginalSuffix(req)]

\* a completion without choices or without content
Missing == "<missing>"

\* answers of the categorizer
CategoryAnswers == {"bug", "Bug", " bug ", "feature", "Bug!!", Missing}

ToLowerCase(s) == IF s = "Bug" THEN "bug" ELSE IF s = "Bug!!" THEN "bug!!" ELSE s

\* String.prototype.trim on the answers above
Trim(s) == IF s = " bug " THEN "bug" ELSE s

\* variant: the answer is compared without trimming it
categorizeRequest_noTrim(content) ==
  LET category == IF content = Missing THEN Missing ELSE ToLowerCase(content)
  IN IF category = "bug" THEN "bug" ELSE "feature"

\* categorizeRequest on the content of the completion
categorizeRequest(content) ==
  LET category == IF content = Missing THEN Missing
                  ELSE ToLowerCase(Trim(content))
  IN IF category = "bug" THEN "bug" ELSE "feature"

\* ------------------------------------------------------------ pure helpers
generateItemId(request) == request.title \o request.created_at

\* variant: the local check never finds the ItemId
Includes_never(seq, x) == FALSE

Includes(seq, x) == \E k \in 1..Len(seq) : seq[k] = x

\* array.slice(0, count)
Slice(array, count) ==
  LET n == IF count = NaN \/ count < 0 THEN 0
           ELSE IF count > Len(array) THEN Len(array) ELSE count
  IN SubSeq(array, 1, n)

CharCode(c) ==
  CASE c = "p" -> 112
    [] c = "0" -> 48 [] c = "1" -> 49 [] c = "2" -> 50 [] c = "3" -> 51
    [] c = "4" -> 52 [] c = "5" -> 53 [] c = "6" -> 54 [] c = "7" -> 55
    [] c = "8" -> 56 [] c = "9" -> 57

Digit(d) ==
  CASE d = 0 -> "0" [] d = 1 -> "1" [] d = 2 -> "2" [] d = 3 -> "3"
    [] d = 4 -> "4" [] d = 5 -> "5" [] d = 6 -> "6" [] d = 7 -> "7"
    [] d = 8 -> "8" [] d = 9 -> "9"

\* the identifier the remote service gives its n-th post, as its characters
PostId(n) == IF n < 10 THEN <<"p", Digit(n)>>
             ELSE <<"p", Digit(n \div 10), Digit(n % 10)>>

RECURSIVE SeedNumber(_)
SeedNumber(seed) ==
  IF seed = <<>> THEN 0 ELSE CharCode(Head(seed)) + SeedNumber(Tail(seed))

\* floor(10^6 * (x - floor(x))) for x = sin(seed) * 10000, seed = 162..231
SineTable ==
  << 496492, 898241, 327780, 972794, 915637, 498131, 267112, 1323, 494554,
     908679, 591401, 894670, 380257, 654048, 522360, 897877, 753358, 221672,
     473642, 485998, 189340, 804082, 843832, 211800, 760624, 289766, 763309,
     179536, 992786, 85484, 616423, 434253, 136707, 546679, 300555, 58429,
     214083, 11639, 27027, 97492, 184068, 97001, 203593, 24922, 580968,
     949724, 679301, 666417, 185183, 521461, 529062, 293801, 994513, 456219,
     584883, 183905, 754726, 852585, 987124, 387978, 508382, 534852, 790026,
     51219, 561828, 585970, 230624, 623697, 357959, 158102 >>

\* pseudoRandom(seed), in millionths
pseudoRandom(seed) == SineTable[seed - 161]

\* variant: the swap overwrites position a without keeping its element
Swap_lossy(array, a, b) ==
  [array EXCEPT ![a] = array[b]]

Swap(array, a, b) ==
  [array EXCEPT ![a] = array[b], ![b] = array[a]]

\* the while loop of shuffleArray from m downwards (positions are 1-based
\* here: array[m] of the script after m-- is position m, array[i] is i + 1)
RECURSIVE ShuffleFrom(_, _, _)
ShuffleFrom(array, seedNumber, m) ==
  IF m = 0 THEN array
  ELSE LET i == (pseudoRandom(seedNumber + m) * m) \div 1000000
       IN ShuffleFrom(Swap(array, m, i + 1), seedNumber, m - 1)

shuffleArray(array, seed) == ShuffleFrom(array, SeedNumber(seed), Len(array))

\* voters of addVotes(postID, count, fakeUsers)
Voters(postID, count, users) == Slice(shuffleArray(users, postID), count)

RECURSIVE MaxLikes(_, _)
MaxLikes(reqs, k) ==
  IF k = 0 THEN NaN
  ELSE IF k = 1 THEN ParseInt(reqs[1].likes)
  ELSE MathMax(MaxLikes(reqs, k - 1), ParseInt(reqs[k].likes))

\* fake_users.json after ensureFakeUsers(count): fake1, fake2, ... in order
GrownPool(users, count) ==
  LET needed == MathMax(count, Len(users))
  IN IF needed = NaN THEN users ELSE [k \in 1..needed |-> k]


\* ------------------------------------------------------------------- state
VARIABLES
  requests,       \* rows of the source file, unchanged between runs
  config,         \* configuration of every run
  stateFile,      \* import_state.json: NoFile, Truncated or
                  \* << {cursor, importedIds} >>
  usersFile,      \* fake_users.json: the fake users in file order
  boards,         \* remote service: titles on each board
  posts,          \* remote service: posts[r] = number of posts created for row r
  run,            \* number of the current run
  pc,             \* position of main() in the current run
  fakeUsers,      \* main: fakeUsers
  existingPosts,  \* main: existingFeaturePosts and existingBugPosts
  importState,    \* main: importState
  importedPosts,  \* main: importedPosts
  i,              \* main: loop index (0-based)
  enhancedTitle,  \* main: enhancedRequest.title
  enhancedRequest,\* main: enhancedRequest
  enhanceAnswer,  \* enhanceRequest: what the patterns matched in the
                  \* completion, until categorizeRequest is called
  category,       \* main: category
  categoryAnswer, \* categorizeRequest: content of the completion, until the
                  \* remote check has used the category
  postID,         \* main: postID, as the number of the post (0: none yet)
  voters,         \* addVotes: voters the for loop has still to visit
  cast,           \* addVotes: voters whose createVote call returned, in order
  startIds,       \* importedIds as loaded at the start of the run
  runPosts,       \* << category, title >> of the posts created in this run
  failedPost,     \* first row of the current run whose createPost call threw
                  \* (NumRows: none)
  failedSave,     \* first row of the current run whose saveImportState call
                  \* threw (NumRows: none)
  outcome,        \* how row i - 1 ended, while the loop is at its head
  calls,          \* remote calls made so far for the row being processed
  array,          \* shuffleArray: array
  seed,           \* shuffleArray: seed, as its characters
  m,              \* shuffleArray: m
  draws,          \* shuffleArray: the values i took, in order
  passed,         \* shuffleArray: array as it was passed
  listing,        \* remote service: the pages a board answers posts/list with
  skip,           \* fetchExistingPosts: skip
  hasMore,        \* fetchExistingPosts: hasMore
  fetched,        \* fetchExistingPosts: existingPosts
  requested       \* fetchExistingPosts: the skip of every request, in order

vars == << requests, config, stateFile, usersFile, boards, posts, run, pc,
           fakeUsers, existingPosts, importState, importedPosts, i,
           enhancedTitle, enhancedRequest, enhanceAnswer, category,
           categoryAnswer, postID, voters, cast, startIds, runPosts,
           failedPost, failedSave, outcome, calls,
           array, seed, m, draws, passed,
           listing, skip, hasMore, fetched, requested >>

inputs == << requests, config >>
remote == << boards, posts >>
files == << stateFile, usersFile >>
mainLocals == << fakeUsers, existingPosts, importState, importedPosts >>
rowLocals == << enhancedTitle, enhancedRequest, enhanceAnswer, category,
               categoryAnswer, postID, voters, cast >>
runHistory == << startIds, runPosts >>
failures == << failedPost, failedSave >>
shuffling == << array, seed, m, draws, passed >>
\* functions stepped on their own, outside a run of main
paging == << listing, skip, hasMore, fetched, requested >>
aside == << shuffling, paging >>

\* number of posts the remote service holds for the first k rows
RECURSIVE PostsUpTo(_)
PostsUpTo(k) == IF k = 0 THEN 0 ELSE posts[k - 1] + PostsUpTo(k - 1)
NumPosts == PostsUpTo(NumRows)

NoFile == <<>>
\* import_state.json cut short by a write that did not finish: JSON.parse
\* throws on it
Truncated == << [truncated |-> TRUE] >>
Parseable(file) == file # NoFile /\ file # Truncated
NoAnswer == "<none>"
NoContent == [title |-> NoAnswer, description |-> NoAnswer]
NoRequest == [title |-> "", created_at |-> "", likes |-> "",
              description |-> <<>>]
FreshState == [cursor |-> 0, importedIds |-> <<>>]
Rows == 0..(NumRows - 1)
NoTitles == [c \in Categories |-> {}]

request == requests[i + 1]
itemId == generateItemId(request)
maxPosts == ParseInt(config.MAX_POSTS)

\* variant: the catch starts after the first row
loadOrCreateImportState_pastFirst ==
  IF Parseable(stateFile) THEN stateFile[1]
  ELSE [cursor |-> 1, importedIds |-> <<>>]

\* loadOrCreateImportState
loadOrCreateImportState ==
  IF Parseable(stateFile) THEN stateFile[1] ELSE FreshState

\* no call of shuffleArray is being stepped
NotShuffling ==
  /\ array = <<>>
  /\ seed = <<>>
  /\ m = 0
  /\ draws = <<>>
  /\ passed = <<>>

\* no call of fetchExistingPosts is being stepped
NotPaging ==
  /\ listing = <<>>
  /\ skip = 0
  /\ hasMore = FALSE
  /\ fetched = {}
  /\ requested = <<>>

Init ==
  /\ requests \in Sources
  /\ config \in Configs
  /\ stateFile = NoFile
  /\ \E n \in {0, MaxInitPool} : usersFile = [k \in 1..n |-> k]
  /\ boards = NoTitles
  /\ posts = [r \in Rows |-> 0]
  /\ run = 1
  /\ pc = "start"
  /\ fakeUsers = <<>>
  /\ existingPosts = NoTitles
  /\ importState = FreshState
  /\ importedPosts = 0
  /\ i = 0
  /\ enhancedTitle = ""
  /\ enhancedRequest = NoRequest
  /\ enhanceAnswer = NoContent
  /\ category = ""
  /\ categoryAnswer = NoAnswer
  /\ postID = 0
  /\ voters = <<>>
  /\ cast = <<>>
  /\ startIds = <<>>
  /\ runPosts = {}
  /\ failedPost = NumRows
  /\ failedSave = NumRows
  /\ outcome = "pending"
  /\ calls = <<>>
  /\ NotShuffling
  /\ NotPaging

\* ----------------------------------------------------- before the row loop
\* variant: the outer catch saves the state it has before the run ends
Fatal_savingState ==
  /\ pc' = "fatal"
  /\ stateFile' = << importState >>
  /\ UNCHANGED << aside, inputs, usersFile, remote, run, mainLocals, i, rowLocals,
                  runHistory, failures, outcome, calls >>

\* the outer catch of main: the run ends without touching the rows
Fatal ==
  /\ pc' = "fatal"
  /\ UNCHANGED << aside, inputs, files, remote, run, mainLocals, i, rowLocals,
                  runHistory, failures, outcome, calls >>

\* getConfig, readCSV, maxVotes and ensureFakeUsers
Bootstrap ==
  /\ pc = "start"
  /\ \/ /\ fakeUsers' = GrownPool(usersFile, MaxLikes(requests, NumRows))
        /\ usersFile' = fakeUsers'
        /\ pc' = "fetch"
        /\ UNCHANGED << aside, inputs, stateFile, remote, run, existingPosts,
                        importState, importedPosts, i, rowLocals, runHistory,
                        failures, outcome, calls >>
     \/ Fatal

\* fetchExistingPosts for both boards, then the state is loaded and the
\* counter and the loop index are set
FetchExisting ==
  /\ pc = "fetch"
  /\ \/ /\ existingPosts' = boards
        /\ importState' = loadOrCreateImportState
        /\ importedPosts' = Len(importState'.importedIds)
        /\ i' = importState'.cursor
        /\ startIds' = importState'.importedIds
        /\ pc' = "loop"
        /\ UNCHANGED << aside, inputs, files, remote, run, fakeUsers, rowLocals,
                        runPosts,
                        failures, outcome, calls >>
     \/ Fatal

\* ------------------------------------------------------------ the row loop
\* variant: the enhancer comes first and the validity filter is left out
\* when both are on
FirstStage_enhanceFirst ==
  IF config.POSTS_AI_ENHANCEMENT THEN "enhance"
  ELSE IF config.INVALID_POSTS_AI_FILTERING THEN "valid" ELSE "categorize"

\* first stage of a row that passed the local check
FirstStage ==
  IF config.INVALID_POSTS_AI_FILTERING THEN "valid"
  ELSE IF config.POSTS_AI_ENHANCEMENT THEN "enhance" ELSE "categorize"

\* variant: the row ends without the index moving on
EndRow_sameIndex(how) ==
  /\ outcome' = how
  /\ i' = i
  /\ pc' = "loop"
  /\ enhancedTitle' = ""
  /\ enhancedRequest' = NoRequest
  /\ enhanceAnswer' = NoContent
  /\ category' = ""
  /\ categoryAnswer' = NoAnswer
  /\ postID' = 0
  /\ voters' = <<>>
  /\ cast' = <<>>
  /\ calls' = <<>>

\* the row ends (continue, or the end of the try/catch): next index
EndRow(how) ==
  /\ outcome' = how
  /\ i' = i + 1
  /\ pc' = "loop"
  /\ enhancedTitle' = ""
  /\ enhancedRequest' = NoRequest
  /\ enhanceAnswer' = NoContent
  /\ category' = ""
  /\ categoryAnswer' = NoAnswer
  /\ postID' = 0
  /\ voters' = <<>>
  /\ cast' = <<>>
  /\ calls' = <<>>

\* variant: the row is recorded before its remote calls, so that a throw
\* leaves its ItemId in the saved state
Throw_recording(how) ==
  /\ EndRow(how)
  /\ failedPost' = IF how = "failed post" /\ i < failedPost THEN i
                   ELSE failedPost
  /\ importState' = [importState EXCEPT
                       !.importedIds = Append(@, itemId)]
  /\ stateFile' = << importState' >>
  /\ UNCHANGED << aside, inputs, usersFile, remote, run, fakeUsers, existingPosts,
                  importedPosts, runHistory, failedSave >>

\* a remote call throws: the catch of the row logs it
Throw(how) ==
  /\ EndRow(how)
  /\ failedPost' = IF how = "failed post" /\ i < failedPost THEN i
                   ELSE failedPost
  /\ UNCHANGED << aside, inputs, files, remote, run, mainLocals, runHistory,
                  failedSave >>

\* variant: the loop goes on to the stages without the local check
LoopHead_noLocalCheck ==
  /\ pc = "loop"
  /\ IF i >= NumRows THEN
       /\ pc' = "done"
       /\ outcome' = "pending"
       /\ UNCHANGED << i, rowLocals, calls >>
     ELSE IF GreaterEq(importedPosts, maxPosts) THEN
       /\ pc' = "capped"
       /\ outcome' = "pending"
       /\ UNCHANGED << i, rowLocals, calls >>
     ELSE
       /\ pc' = FirstStage
       /\ enhancedTitle' = request.title
       /\ enhancedRequest' = request
       /\ outcome' = "pending"
       /\ UNCHANGED << i, enhanceAnswer, category, categoryAnswer, postID,
                       voters, cast, calls >>
  /\ UNCHANGED << aside, inputs, files, remote, run, mainLocals, runHistory,
                  failures >>

\* loop condition, cap check and local duplicate check
LoopHead ==
  /\ pc = "loop"
  /\ IF i >= NumRows THEN
       /\ pc' = "done"
       /\ outcome' = "pending"
       /\ UNCHANGED << i, rowLocals, calls >>
     ELSE IF GreaterEq(importedPosts, maxPosts) THEN
       /\ pc' = "capped"
       /\ outcome' = "pending"
       /\ UNCHANGED << i, rowLocals, calls >>
     ELSE IF Includes(importState.importedIds, itemId) THEN
       EndRow("local duplicate")
     ELSE
       /\ pc' = FirstStage
       /\ enhancedTitle' = request.title
       /\ enhancedRequest' = request
       /\ outcome' = "pending"
       /\ UNCHANGED << i, enhanceAnswer, category, categoryAnswer, postID,
                       voters, cast, calls >>
  /\ UNCHANGED << aside, inputs, files, remote, run, mainLocals, runHistory,
                  failures >>

\* variant: a row found invalid is skipped for good, the cursor saved past it
CallIsValid_advancing ==
  /\ pc = "valid"
  /\ \/ \E isValid \in BOOLEAN :
          /\ IF isValid
             THEN /\ pc' = (IF config.POSTS_AI_ENHANCEMENT
                            THEN "enhance" ELSE "categorize")
                  /\ calls' = Append(calls, "valid")
                  /\ UNCHANGED << i, outcome, rowLocals, importState,
                                  stateFile >>
             ELSE /\ EndRow("invalid")
                  /\ importState' = [importState EXCEPT !.cursor = i + 1]
                  /\ stateFile' = << importState' >>
          /\ UNCHANGED << aside, inputs, usersFile, remote, run, fakeUsers,
                          existingPosts, importedPosts, runHistory,
                          failures >>
     \/ Throw("failed")

\* isValidRequest
CallIsValid ==
  /\ pc = "valid"
  /\ \/ \E isValid \in BOOLEAN :
          /\ IF isValid
             THEN /\ pc' = (IF config.POSTS_AI_ENHANCEMENT
                            THEN "enhance" ELSE "categorize")
                  /\ calls' = Append(calls, "valid")
                  /\ UNCHANGED << i, outcome, rowLocals >>
             ELSE EndRow("invalid")
          /\ UNCHANGED << aside, inputs, files, remote, run, mainLocals, runHistory,
                          failures >>
     \/ Throw("failed")

\* enhanceRequest
CallEnhance ==
  /\ pc = "enhance"
  /\ \/ \E content \in EnhanceAnswers :
          /\ enhanceAnswer' = content
          /\ enhancedRequest' = enhanceRequest(request, content)
          /\ enhancedTitle' = enhancedRequest'.title
          /\ pc' = "categorize"
          /\ calls' = Append(calls, "enhance")
          /\ UNCHANGED << aside, inputs, files, remote, run, mainLocals, i,
                          category, categoryAnswer, postID, voters, cast,
                          runHistory, failures, outcome >>
     \/ Throw("failed")

\* categorizeRequest
CallCategorize ==
  /\ pc = "categorize"
  /\ \/ \E content \in CategoryAnswers :
          /\ category' = categorizeRequest(content)
          /\ categoryAnswer' = content
          /\ enhanceAnswer' = NoContent
          /\ pc' = "check"
          /\ calls' = Append(calls, "categorize")
          /\ UNCHANGED << aside, inputs, files, remote, run, mainLocals, i,
                          enhancedTitle, enhancedRequest, postID, voters,
                          cast, runHistory,
                          failures, outcome >>
     \/ Throw("failed")

\* variant: the check always consults the index of the feature board
RemoteCheck_featureIndex ==
  /\ pc = "check"
  /\ IF enhancedTitle \in existingPosts["feature"]
     THEN EndRow("remote duplicate")
     ELSE /\ pc' = "user"
          /\ categoryAnswer' = NoAnswer
          /\ UNCHANGED << i, outcome, enhancedTitle, enhancedRequest,
                          enhanceAnswer, category, postID, voters, cast,
                          calls >>
  /\ UNCHANGED << aside, inputs, files, remote, run, mainLocals, runHistory,
                  failures >>

\* the remote duplicate check on the index of the chosen category
RemoteCheck ==
  /\ pc = "check"
  /\ IF enhancedTitle \in existingPosts[category]
     THEN EndRow("remote duplicate")
     ELSE /\ pc' = "user"
          /\ categoryAnswer' = NoAnswer
          /\ UNCHANGED << i, outcome, enhancedTitle, enhancedRequest,
                          enhanceAnswer, category, postID, voters, cast,
                          calls >>
  /\ UNCHANGED << aside, inputs, files, remote, run, mainLocals, runHistory,
                  failures >>

\* createOrUpdateUser for the requester
CallCreateUser ==
  /\ pc = "user"
  /\ \/ /\ pc' = "post"
        /\ calls' = Append(calls, "user")
        /\ UNCHANGED << aside, inputs, files, remote, run, mainLocals, i, rowLocals,
                        runHistory, failures, outcome >>
     \/ Throw("failed")

\* variant: addVotes shuffles the shared pool itself instead of a copy
CallCreatePost_inPlace ==
  /\ pc = "post"
  /\ \/ /\ posts' = [posts EXCEPT ![i] = @ + 1]
        /\ runPosts' = runPosts \cup {<< category, enhancedTitle >>}
        /\ boards' = [boards EXCEPT ![category] = @ \cup {enhancedTitle}]
        /\ postID' = NumPosts + 1
        /\ fakeUsers' = shuffleArray(fakeUsers, PostId(postID'))
        /\ voters' = Slice(fakeUsers', ParseInt(request.likes))
        /\ pc' = "votes"
        /\ calls' = Append(calls, "post")
        /\ UNCHANGED << aside, inputs, files, run, existingPosts, importState,
                        importedPosts, i, enhancedTitle, enhancedRequest,
                        enhanceAnswer, category, categoryAnswer, cast, startIds, failures,
                        outcome >>
     \/ Throw("failed post")

\* createPost, then addVotes up to its first createVote call
CallCreatePost ==
  /\ pc = "post"
  /\ \/ /\ posts' = [posts EXCEPT ![i] = @ + 1]
        /\ runPosts' = runPosts \cup {<< category, enhancedTitle >>}
        /\ boards' = [boards EXCEPT ![category] = @ \cup {enhancedTitle}]
        /\ postID' = NumPosts + 1
        /\ voters' = Voters(PostId(postID'), ParseInt(request.likes), fakeUsers)
        /\ pc' = "votes"
        /\ calls' = Append(calls, "post")
        /\ UNCHANGED << aside, inputs, files, run, mainLocals, i, enhancedTitle,
                        enhancedRequest, enhanceAnswer, category,
                        categoryAnswer, cast, startIds, failures,
                        outcome >>
     \/ Throw("failed post")

\* one createVote call of the for loop of addVotes
CallCreateVote ==
  /\ pc = "votes"
  /\ voters # <<>>
  /\ \/ /\ cast' = Append(cast, Head(voters))
        /\ voters' = Tail(voters)
        /\ calls' = Append(calls, "vote")
        /\ UNCHANGED << aside, inputs, files, remote, run, pc, mainLocals, i,
                        enhancedTitle, enhancedRequest, enhanceAnswer,
                        category, categoryAnswer, postID, runHistory, failures,
                        outcome >>
     \/ Throw("failed vote")

\* variant: the state is saved once, with the last row of the source
Commit_savingAtEnd ==
  /\ pc = "votes"
  /\ voters = <<>>
  /\ existingPosts' = [existingPosts EXCEPT ![category] = @ \cup {enhancedTitle}]
  /\ importedPosts' = importedPosts + 1
  /\ importState' = [cursor |-> i + 1,
                     importedIds |-> Append(importState.importedIds, itemId)]
  /\ stateFile' = IF i + 1 = NumRows THEN << importState' >> ELSE stateFile
  /\ EndRow("committed")
  /\ UNCHANGED << aside, inputs, usersFile, remote, run, fakeUsers, runHistory,
                  failures >>

\* addVotes returned: the row is recorded and the state saved
Commit ==
  /\ pc = "votes"
  /\ voters = <<>>
  /\ existingPosts' = [existingPosts EXCEPT ![category] = @ \cup {enhancedTitle}]
  /\ importedPosts' = importedPosts + 1
  /\ importState' = [cursor |-> i + 1,
                     importedIds |-> Append(importState.importedIds, itemId)]
  /\ stateFile' = << importState' >>
  /\ EndRow("committed")
  /\ UNCHANGED << aside, inputs, usersFile, remote, run, fakeUsers, runHistory,
                  failures >>

\* addVotes returned and the row is recorded in memory, but writeFileSync
\* throws: the file is as it was if it could not be opened, cut short if the
\* write failed after the file was opened (and emptied); the catch of the
\* row logs the error
SaveThrows ==
  /\ pc = "votes"
  /\ voters = <<>>
  /\ existingPosts' = [existingPosts EXCEPT ![category] = @ \cup {enhancedTitle}]
  /\ importedPosts' = importedPosts + 1
  /\ importState' = [cursor |-> i + 1,
                     importedIds |-> Append(importState.importedIds, itemId)]
  /\ \E file \in {stateFile, Truncated} : stateFile' = file
  /\ EndRow("failed save")
  /\ failedSave' = IF i < failedSave THEN i ELSE failedSave
  /\ UNCHANGED << aside, inputs, usersFile, remote, run, fakeUsers, runHistory,
                  failedPost >>

\* the process is stopped while writeFileSync runs: the file is as it was,
\* cut short, or complete, and the run is over
KilledInSave ==
  /\ pc = "votes"
  /\ voters = <<>>
  /\ \E file \in {stateFile, Truncated,
                   << [cursor |-> i + 1,
                       importedIds |->
                         Append(importState.importedIds, itemId)] >>} :
        stateFile' = file
  /\ pc' = "killed"
  /\ UNCHANGED << aside, inputs, usersFile, remote, run, mainLocals, i, rowLocals,
                  runHistory, failures, outcome, calls >>

\* the script is started again over the same source
NextRun ==
  /\ pc \in {"done", "capped", "fatal", "killed"}
  /\ run < MaxRuns
  /\ run' = run + 1
  /\ pc' = "start"
  /\ fakeUsers' = <<>>
  /\ existingPosts' = NoTitles
  /\ importState' = FreshState
  /\ importedPosts' = 0
  /\ i' = 0
  /\ startIds' = <<>>
  /\ runPosts' = {}
  /\ failedPost' = NumRows
  /\ failedSave' = NumRows
  /\ outcome' = "pending"
  /\ enhancedTitle' = ""
  /\ enhancedRequest' = NoRequest
  /\ enhanceAnswer' = NoContent
  /\ category' = ""
  /\ categoryAnswer' = NoAnswer
  /\ postID' = 0
  /\ voters' = <<>>
  /\ cast' = <<>>
  /\ calls' = <<>>
  /\ UNCHANGED << aside, inputs, files, remote >>

Next ==
  \/ Bootstrap
  \/ FetchExisting
  \/ LoopHead
  \/ CallIsValid
  \/ CallEnhance
  \/ CallCategorize
  \/ RemoteCheck
  \/ CallCreateUser
  \/ CallCreatePost
  \/ CallCreateVote
  \/ Commit
  \/ NextRun

\* runs in which every write of import_state.json completes
Spec == Init /\ [][Next]_vars

\* runs in which a write of import_state.json may also throw or be cut short
NextFaults ==
  \/ Next
  \/ SaveThrows
  \/ KilledInSave

SpecFaults == Init /\ [][NextFaults]_vars

\* createPost gets an error response: nothing is created, data.id is
\* undefined, and shuffleArray throws on seed.split before any vote is cast;
\* the catch of the row logs it
CreatePostRejected ==
  /\ pc = "post"
  /\ Throw("rejected post")

\* a createVote call gets an error response: addVotes does not look at the
\* response and goes on to the next voter
CreateVoteRejected ==
  /\ pc = "votes"
  /\ voters # <<>>
  /\ voters' = Tail(voters)
  /\ calls' = Append(calls, "rejected vote")
  /\ UNCHANGED << aside, inputs, files, remote, run, pc, mainLocals, i,
                  enhancedTitle, enhancedRequest, enhanceAnswer, category,
                  categoryAnswer, postID, cast, runHistory, failures,
                  outcome >>

\* runs in which the remote service may also answer createPost and
\* createVote with an error response
NextRejects ==
  \/ Next
  \/ CreatePostRejected
  \/ CreateVoteRejected

SpecRejects == Init /\ [][NextRejects]_vars

\* every await of main settles: the call returns or throws, and the script
\* takes its next step
SpecFair == Init /\ [][Next]_vars /\ WF_vars(Next)

\* ------------------------------------------------- shuffleArray on its own
mainVars == << inputs, files, remote, run, pc, mainLocals, i, rowLocals,
              runHistory, failures, outcome, calls >>

\* no run of main is going on
MainIdle ==
  /\ requests = <<>>
  /\ config = [INVALID_POSTS_AI_FILTERING |-> FALSE,
               POSTS_AI_ENHANCEMENT |-> FALSE, MAX_POSTS |-> "Infinity"]
  /\ stateFile = NoFile
  /\ usersFile = <<>>
  /\ boards = NoTitles
  /\ posts = [r \in Rows |-> 0]
  /\ run = 1
  /\ pc = "idle"
  /\ fakeUsers = <<>>
  /\ existingPosts = NoTitles
  /\ importState = FreshState
  /\ importedPosts = 0
  /\ i = 0
  /\ enhancedTitle = ""
  /\ enhancedRequest = NoRequest
  /\ enhanceAnswer = NoContent
  /\ category = ""
  /\ categoryAnswer = NoAnswer
  /\ postID = 0
  /\ voters = <<>>
  /\ cast = <<>>
  /\ startIds = <<>>
  /\ runPosts = {}
  /\ failedPost = NumRows
  /\ failedSave = NumRows
  /\ outcome = "pending"
  /\ calls = <<>>

\* arrays of fake users, repeated members included
Arrays == UNION { [1..n -> 1..MaxArray] : n \in 0..MaxArray }

\* shuffleArray(array, seed) was called and is at the head of its loop
ShuffleInit ==
  /\ MainIdle
  /\ NotPaging
  /\ passed \in Arrays
  /\ array = passed
  /\ seed \in { PostId(n) : n \in 1..MaxSeedPost }
  /\ m = Len(array)
  /\ draws = <<>>

\* variant: every draw uses the pseudo-random value of the same seed
Draw_sameSeed(seedNumber, k) ==
  (pseudoRandom(seedNumber + 1) * k) \div 1000000

\* Math.floor(pseudoRandom(seedNumber + m) * m)
Draw(seedNumber, k) ==
  (pseudoRandom(seedNumber + k) * k) \div 1000000

\* one turn of the while loop of shuffleArray
ShuffleStep ==
  /\ m # 0
  /\ LET drawn == Draw(SeedNumber(seed), m)
     IN /\ m' = m - 1
        /\ array' = Swap(array, m, drawn + 1)
        /\ draws' = Append(draws, drawn)
  /\ UNCHANGED << seed, passed, paging, mainVars >>

ShuffleNext == ShuffleStep

ShuffleSpec == ShuffleInit /\ [][ShuffleNext]_vars

\* ------------------------------------------- fetchExistingPosts on its own
\* limit of fetchExistingPosts
Limit == 100

Titles == {"a", "a1"}

\* the pages of a board: the last one reports hasMore = false, and an
\* earlier one may
Listings ==
  { pages \in UNION { [1..n -> [titles : SUBSET Titles, hasMore : BOOLEAN]] :
                       n \in 1..MaxPages } :
      ~ pages[Len(pages)].hasMore }

\* the answer of posts/list to a request with the given skip
Page(offset) == listing[offset \div Limit + 1]

\* fetchExistingPosts(boardID) was called and is at the head of its loop
PagingInit ==
  /\ MainIdle
  /\ NotShuffling
  /\ listing \in Listings
  /\ skip = 0
  /\ hasMore = TRUE
  /\ fetched = {}
  /\ requested = <<>>

\* variant: the titles of the page that reports hasMore = false are dropped
FetchPage_droppingLast ==
  /\ hasMore
  /\ requested' = Append(requested, skip)
  /\ fetched' = IF Page(skip).hasMore THEN fetched \cup Page(skip).titles
                ELSE fetched
  /\ hasMore' = Page(skip).hasMore
  /\ skip' = skip + Limit
  /\ UNCHANGED << listing, shuffling, mainVars >>

\* one turn of the while loop of fetchExistingPosts
FetchPage ==
  /\ hasMore
  /\ requested' = Append(requested, skip)
  /\ fetched' = fetched \cup Page(skip).titles
  /\ hasMore' = Page(skip).hasMore
  /\ skip' = skip + Limit
  /\ UNCHANGED << listing, shuffling, mainVars >>

PagingNext == FetchPage

PagingSpec == PagingInit /\ [][PagingNext]_vars

TypeOK ==
  /\ pc \in {"start", "fetch", "loop", "valid", "enhance", "categorize",
             "check", "user", "post", "votes", "done", "capped", "fatal",
             "killed"}
  /\ i \in 0..NumRows
  /\ run \in 1..MaxRuns
  /\ failedPost \in 0..NumRows
  /\ failedSave \in 0..NumRows

\* ------------------------------------------------- vocabulary of the claims
Range(seq) == {seq[k] : k \in 1..Len(seq)}

\* what import_state.json holds
PersistedIds ==
  IF Parseable(stateFile) THEN stateFile[1].importedIds ELSE <<>>
PersistedCursor == IF Parseable(stateFile) THEN stateFile[1].cursor ELSE 0

RowItemId(r) == generateItemId(requests[r + 1])

\* rows recorded by the current run
CommittedThisRun == Len(importState.importedIds) - Len(startIds)

InRowLoop == pc \in {"loop", "valid", "enhance", "categorize", "check",
                     "user", "post", "votes", "done", "capped"}

Min(a, b) == IF a <= b THEN a ELSE b

\* seq ends with suffix
EndsWith(seq, suffix) ==
  /\ Len(suffix) <= Len(seq)
  /\ SubSeq(seq, Len(seq) - Len(suffix) + 1, Len(seq)) = suffix

\* the row being processed went through enhanceRequest
Enhanced == "enhance" \in Range(calls)

\* position of a call in the order of the stages of a row
Rank(call) ==
  CASE call = "valid" -> 1
    [] call = "enhance" -> 2
    [] call = "categorize" -> 3
    [] call = "user" -> 4
    [] call = "post" -> 5
    [] call = "vote" -> 6

Last(seq) == seq[Len(seq)]

\* seq is the beginning of longer
IsPrefix(seq, longer) ==
  /\ Len(seq) <= Len(longer)
  /\ SubSeq(longer, 1, Len(seq)) = seq

\* number of positions of seq that hold x
Count(seq, x) == Cardinality({k \in 1..Len(seq) : seq[k] = x})

\* ------------------------------------------------------------------ claims
\* C1: every ItemId in the persisted importedIds is the ItemId of a source
\* row for which createPost returned a post, in this run or an earlier one;
\* the same holds of the importedIds held in memory.
C1_ImportedIdsHavePosts ==
  \A id \in Range(PersistedIds) \cup Range(importState.importedIds) :
    \E r \in Rows : RowItemId(r) = id /\ posts[r] > 0

\* a run in which one row failed at createPost and another row is recorded
C1_Witness ==
  /\ failedPost < NumRows
  /\ CommittedThisRun > 0
  /\ PersistedIds # <<>>

\* C2: at the end of a run, for the first row r whose processing threw
\* during createPost, the persisted cursor is at most r and the persisted
\* importedIds does not hold r's ItemId (so the next run reaches row r).
C2_FailedRowStaysResumable ==
  pc \in {"done", "capped"} =>
    \A r \in Rows :
      r = failedPost =>
        /\ PersistedCursor <= r
        /\ RowItemId(r) \notin Range(PersistedIds)

\* C3: over all runs, no source row has more than one remote post.
C3_NoDuplicatePost ==
  \A r \in Rows : posts[r] <= 1

\* C4: a run that loads a state in which every row's ItemId is recorded makes
\* no remote call for any row (no createPost, no createVote) and leaves
\* importedIds, in memory and in the file, as loaded.
C4_CompletedImportIsIdempotent ==
  (InRowLoop /\ \A r \in Rows : RowItemId(r) \in Range(startIds)) =>
    /\ pc \in {"loop", "done", "capped"}
    /\ calls = <<>>
    /\ cast = <<>>
    /\ runPosts = {}
    /\ importState.importedIds = startIds
    /\ PersistedIds = startIds

\* a second run over a completed import that skipped a row by its ItemId
C4_Witness ==
  /\ run > 1
  /\ pc = "loop"
  /\ i = NumRows
  /\ \A r \in Rows : RowItemId(r) \in Range(startIds)
  /\ outcome = "local duplicate"

\* C5: a run stops at the cap check only after it has committed exactly
\* maxPosts posts itself.
C5_CapAfterExactlyMaxPosts ==
  pc = "capped" => CommittedThisRun = maxPosts

\* C6: the counter compared against maxPosts counts the posts imported in the
\* current run only (0 at the start of the run, whatever state was loaded).
C6_CounterCountsThisRun ==
  InRowLoop => importedPosts = CommittedThisRun

\* C7: a row the loop reaches whose ItemId is already in importedIds ends at
\* once: no remote call, and cursor, importedIds, the counter, the state file
\* and the remote service are unchanged.
C7_LocalDuplicateSkip ==
  [][ ( /\ pc = "loop"
        /\ i < NumRows
        /\ ~GreaterEq(importedPosts, maxPosts)
        /\ itemId \in Range(importState.importedIds) )
      => ( /\ pc' = "loop"
           /\ i' = i + 1
           /\ calls = <<>> /\ calls' = <<>>
           /\ UNCHANGED << importState, importedPosts, files, remote,
                           existingPosts >> ) ]_vars

\* a row was skipped by the local check
C7_Witness ==
  /\ pc = "loop"
  /\ outcome = "local duplicate"
  /\ RowItemId(i - 1) \in Range(importState.importedIds)

\* C8: a row that passed the local check and whose (possibly enhanced) title
\* is in the index of the category chosen for it ends at the check: no
\* identity, post or vote call was made, and importedIds, cursor, the
\* counter, the state file and the remote service are unchanged.
C8_RemoteDuplicateSkip ==
  [][ (pc = "check" /\ enhancedTitle \in existingPosts[category])
      => ( /\ pc' = "loop"
           /\ i' = i + 1
           /\ Range(calls) \cap {"user", "post", "vote"} = {}
           /\ itemId \notin Range(importState'.importedIds)
           /\ UNCHANGED << importState, importedPosts, files, remote,
                           existingPosts >> ) ]_vars

\* a row was skipped by the remote check
C8_Witness ==
  /\ pc = "loop"
  /\ outcome = "remote duplicate"
  /\ RowItemId(i - 1) \notin Range(importState.importedIds)

\* C9: no createPost call creates a post whose title was already given to a
\* post on the same board earlier in the same run, also when the earlier row
\* failed after its createPost call.
C9_IndexSeesCreatedPosts ==
  [][ posts # posts' => << category, enhancedTitle >> \notin runPosts ]_vars

\* C10: while addVotes runs for a post with requested count n >= 0, the
\* voters called so far followed by those still to call are the first
\* min(n, poolSize) members of the shuffled pool, pairwise distinct members
\* of the pool; when addVotes returns, exactly min(n, poolSize) calls were
\* made.
C10_VotesCast ==
  (pc = "votes" /\ ParseInt(request.likes) # NaN) =>
    LET n == ParseInt(request.likes)
        selected == cast \o voters
        shuffled == shuffleArray(fakeUsers, PostId(postID))
    IN /\ Len(selected) = Min(n, Len(fakeUsers))
       /\ \A k \in 1..Len(selected) : selected[k] = shuffled[k]
       /\ \A k \in 1..Len(selected) : selected[k] \in Range(fakeUsers)
       /\ \A k, l \in 1..Len(selected) : k # l => selected[k] # selected[l]
       /\ Cardinality({k \in 1..Len(calls) : calls[k] = "vote"}) = Len(cast)

\* addVotes returned after two votes
C10_Witness ==
  /\ pc = "votes"
  /\ voters = <<>>
  /\ Len(cast) = 2
  /\ cast[1] # cast[2]

\* addVotes returned with a pool smaller than the requested count
C10_PoolSmallerThanRequest ==
  /\ pc = "votes"
  /\ voters = <<>>
  /\ ParseInt(request.likes) > Len(fakeUsers)
  /\ Len(cast) = Len(fakeUsers)
  /\ Len(cast) > 0

\* C11: the voters chosen for a post are the first members of the pool as
\* fake_users.json holds it, shuffled by the post's identifier alone: votes
\* cast for other posts before, in this run or an earlier one, change neither
\* the pool held by the run nor the selection.
C11_SelectionFixedByPoolAndPost ==
  pc = "votes" =>
    /\ fakeUsers = usersFile
    /\ cast \o voters =
         Slice(shuffleArray(usersFile, PostId(postID)),
               ParseInt(request.likes))

\* a later run voted on a second post of its own with a pool of two or more
C11_Witness ==
  /\ pc = "votes"
  /\ voters = <<>>
  /\ run > 1
  /\ Cardinality(runPosts) = 2
  /\ Len(cast) >= 1
  /\ Len(usersFile) >= 2
  /\ shuffleArray(usersFile, PostId(postID)) # usersFile

\* C12 as stated: the category is "bug" exactly when the answer of the
\* categorizer equals "bug" up to the case of its letters.
C12_BugIffEqualsIgnoringCase ==
  pc = "check" =>
    (category = "bug" <=>
       (categoryAnswer # Missing /\ ToLowerCase(categoryAnswer) = "bug"))

\* C12 amended: the category is "bug" exactly when the answer, with the
\* white space around it removed, equals "bug" up to the case of its
\* letters; every other answer, a missing one included, gives "feature", and
\* the row goes on to the remote check.
C12_BugIffTrimmedEqualsIgnoringCase ==
  pc = "check" =>
    /\ categoryAnswer \in CategoryAnswers
    /\ category = (IF categoryAnswer \in {"bug", "Bug", " bug "}
                   THEN "bug" ELSE "feature")

\* an answer that is not "bug" in any case was taken as "feature", and one
\* with white space around "bug" as "bug"
C12_Witness ==
  /\ pc = "check"
  /\ \/ categoryAnswer \in {"Bug!!", Missing} /\ category = "feature"
     \/ categoryAnswer = " bug " /\ category = "bug"

\* C13: whatever the enhancer answered, the description of the record it
\* produced ends with the original title and then the original description,
\* after a new description that is not empty, and the fields other than
\* title and description are those of the original.
C13_OriginalKeptAsSuffix ==
  Enhanced =>
    /\ EndsWith(enhancedRequest.description,
                << "\n\nOriginal title: ", request.title,
                   "\nOriginal description: " >> \o request.description)
    /\ Len(enhancedRequest.description) > 3 + Len(request.description)
    /\ enhancedRequest.created_at = request.created_at
    /\ enhancedRequest.likes = request.likes
    /\ DOMAIN enhancedRequest = DOMAIN request

\* the enhancer returned for an answer with a new title and a new description
C13_Witness ==
  /\ pc = "categorize"
  /\ Enhanced
  /\ enhanceAnswer.description = "e"
  /\ enhancedRequest.description[1] = "e"
  /\ enhancedRequest.title # request.title

\* C14 as stated: when the answer has neither an enhanced title nor an
\* enhanced description, the enhancer returns the record unmodified.
C14_UnparsedGivesOriginal ==
  (pc = "categorize" /\ Enhanced
     /\ enhanceAnswer.title = NoMatch /\ enhanceAnswer.description = NoMatch)
  => /\ enhancedRequest.title = request.title
     /\ enhancedRequest.description = request.description

\* C14 amended: each part the answer does not carry falls back to the
\* original: the title is the original title, the description is the
\* original description followed by the original title and the original
\* description; the row goes on to the categorizer.
C14_UnparsedFallsBack ==
  (pc = "categorize" /\ Enhanced) =>
    /\ enhanceAnswer.title = NoMatch =>
         enhancedRequest.title = request.title
    /\ enhanceAnswer.description = NoMatch =>
         enhancedRequest.description =
           request.description
           \o << "\n\nOriginal title: ", request.title,
                 "\nOriginal description: " >>
           \o request.description

\* the enhancer returned for an answer that matched neither pattern
C14_Witness ==
  /\ pc = "categorize"
  /\ Enhanced
  /\ enhanceAnswer.title = NoMatch
  /\ enhanceAnswer.description = NoMatch
  /\ enhancedRequest.title = request.title
  /\ enhancedRequest.description # request.description

\* C15: when the validity filter is on and finds the row invalid, the row
\* ends there and the loop goes to the next index: no other call was or is
\* made for the row, and cursor, importedIds, the counter, the state file and
\* the remote service are unchanged.
C15_InvalidRowSkipped ==
  [][ (pc = "valid" /\ outcome' = "invalid")
      => ( /\ config.INVALID_POSTS_AI_FILTERING
           /\ pc' = "loop"
           /\ i' = i + 1
           /\ calls = <<>> /\ calls' = <<>>
           /\ UNCHANGED << importState, importedPosts, files, remote,
                           existingPosts >> ) ]_vars

\* a row was skipped as invalid and the loop is at the next index
C15_Witness ==
  /\ pc = "loop"
  /\ outcome = "invalid"
  /\ config.INVALID_POSTS_AI_FILTERING
  /\ i < NumRows
  /\ posts[i - 1] = 0

\* C16: when import_state.json does not exist or cannot be parsed, the load
\* gives cursor 0 and no importedIds (the loop starts at the first row with
\* the counter at 0) and leaves the file as it is; the run goes on to the
\* row loop.
C16_LoadFailsOpen ==
  [][ (pc = "fetch" /\ pc' = "loop" /\ ~Parseable(stateFile))
      => ( /\ importState' = [cursor |-> 0, importedIds |-> <<>>]
           /\ i' = 0
           /\ importedPosts' = 0
           /\ stateFile' = stateFile ) ]_vars

\* a run that found the file cut short is at the head of its row loop
C16_Witness ==
  /\ pc = "loop"
  /\ run > 1
  /\ stateFile = Truncated
  /\ i = 0
  /\ importState.importedIds = <<>>
  /\ NumPosts > 0

\* C17: import_state.json always holds a complete snapshot: after any step,
\* an interrupted save included, it is either absent or parses to the
\* {cursor, importedIds} of a save, and the ItemIds it held before are still
\* in it.
C17_SaveIsAtomic ==
  [][ /\ stateFile' # Truncated
      /\ Range(PersistedIds) \subseteq Range(PersistedIds') ]_vars

\* C18: the ItemId of the first row of a run whose save threw is not in
\* import_state.json, whatever later rows of the run saved.
C18_FailedRowNotPersisted ==
  \A r \in Rows :
    r = failedSave => RowItemId(r) \notin Range(PersistedIds)

\* C19: a run that fails before its row loop (configuration, source file,
\* pool of fake users, index of existing posts) ends there: up to and after
\* the failure it makes no call for a row, creates no post, casts no vote and
\* does not write import_state.json; the outer catch is reached from nowhere
\* else.
C19_FailureBeforeLoopIsFatal ==
  [][ /\ pc' = "fatal" => pc \in {"start", "fetch"}
      /\ pc \in {"start", "fetch", "fatal"} =>
           /\ stateFile' = stateFile
           /\ UNCHANGED remote
           /\ calls' = <<>> /\ cast' = <<>> /\ runPosts' = {}
           /\ pc' \in {"start", "fetch", "fatal", "loop"}
      /\ pc = "fatal" => pc' = "start" /\ run' = run + 1 ]_vars

\* a later run ended in the outer catch with the state file of an earlier
\* run in place
C19_Witness ==
  /\ pc = "fatal"
  /\ run > 1
  /\ PersistedIds # <<>>
  /\ i = 0

\* the calls made for a row are in the order of the stages
C20_CallsInOrder ==
  /\ \A k \in 1..(Len(calls) - 1) :
        \/ Rank(calls[k]) < Rank(calls[k + 1])
        \/ calls[k] = "vote" /\ calls[k + 1] = "vote"
  /\ pc \in {"loop", "valid"} => calls = <<>>
  /\ pc = "enhance" =>
        calls = (IF config.INVALID_POSTS_AI_FILTERING
                 THEN << "valid" >> ELSE <<>>)
  /\ pc \in {"check", "user", "post", "votes"} =>
        /\ config.INVALID_POSTS_AI_FILTERING <=> "valid" \in Range(calls)
        /\ config.POSTS_AI_ENHANCEMENT <=> "enhance" \in Range(calls)
  /\ pc \in {"check", "user"} => Last(calls) = "categorize"
  /\ pc = "post" => Last(calls) = "user"
  /\ pc = "votes" => "post" \in Range(calls)

\* C20: within a row, the local check comes before any call; the validity
\* filter, the enhancer and the categorizer are called in this order, each
\* one that is on exactly once; the remote check comes after the categorizer
\* and before the identity call and createPost; createPost comes before
\* every createVote; and the state file is written only after all of them,
\* as the last step of the row.
C20_StageOrder ==
  [][ /\ C20_CallsInOrder'
      /\ stateFile' # stateFile =>
           /\ pc = "votes" /\ voters = <<>>
           /\ Last(calls) \in {"post", "vote"}
           /\ pc' \in {"loop", "killed"} ]_vars

\* a row with both AI options on was voted on twice and is about to be saved
C20_Witness ==
  /\ pc = "votes"
  /\ voters = <<>>
  /\ calls = << "valid", "enhance", "categorize", "user", "post", "vote",
                "vote" >>

C22_ShuffleIsPermutation ==
  [][ m > 0 =>
        LET seedNumber == CharCode(seed[1]) + CharCode(seed[2])
                          + (IF Len(seed) > 2 THEN CharCode(seed[3]) ELSE 0)
            drawn == draws'[Len(draws')]
        IN /\ seed = << "p", "1" >> => seedNumber = 161
           /\ m' = m - 1
           /\ Len(draws') = Len(draws) + 1
           /\ drawn \in 0..(m - 1)
           /\ drawn = (SineTable[seedNumber + m - 161] * m) \div 1000000
           /\ array' = [array EXCEPT ![m] = array[drawn + 1],
                                     ![drawn + 1] = array[m]]
           /\ Len(array') = Len(passed)
           /\ \A x \in 1..MaxArray : Count(array', x) = Count(passed, x)
           /\ m' = 0 => array' = shuffleArray(passed, seed) ]_vars

\* the loop ended for a full array with a repeated member, seeded with "p1",
\* and the order changed
C22_Witness ==
  /\ m = 0
  /\ seed = << "p", "1" >>
  /\ Len(passed) = MaxArray
  /\ Len(draws) = MaxArray
  /\ passed[1] = passed[2]
  /\ array # passed

\* C23: fetchExistingPosts requests the pages at skip 0, 100, 200, ... in
\* this order, each once; the titles it holds are exactly those of the pages
\* requested so far; every page requested before the last reported hasMore =
\* true, and once a page has reported hasMore = false no request follows.
C23_PagesUntilNoMore ==
  /\ \A k \in 1..Len(requested) : requested[k] = (k - 1) * 100
  /\ skip = Len(requested) * 100
  /\ fetched = UNION { listing[k].titles : k \in 1..Len(requested) }
  /\ \A k \in 1..(Len(requested) - 1) : listing[k].hasMore
  /\ (requested # <<>> /\ listing[Len(requested)].hasMore) => hasMore
  /\ (requested # <<>> /\ ~listing[Len(requested)].hasMore) => ~hasMore

\* the loop ended after two pages, leaving a third page unrequested
C23_Witness ==
  /\ ~hasMore
  /\ Len(requested) = 2
  /\ Len(listing) = 3
  /\ listing[1].titles # listing[2].titles
  /\ listing[2].titles # {}
  /\ fetched = listing[1].titles \cup listing[2].titles

\* C24: every step leaves the cursor that import_state.json gives to a load
\* at least as large as before and at most the number of rows, and leaves
\* the importedIds it gives a continuation of those before, with no ItemId
\* in it twice.
C24_StateOnlyGrows ==
  [][ /\ PersistedCursor' >= PersistedCursor
      /\ PersistedCursor' <= NumRows
      /\ IsPrefix(PersistedIds, PersistedIds')
      /\ \A k, l \in 1..Len(PersistedIds') :
           k # l => PersistedIds'[k] # PersistedIds'[l] ]_vars

\* C25: a row is skipped by the local check only if a row with the same
\* title and the same created_at has been imported (its post exists): rows
\* that differ in title or created_at have different ItemIds.
C25_SkippedOnlyForSamePair ==
  (pc = "loop" /\ outcome = "local duplicate") =>
    \E r \in Rows :
      /\ posts[r] > 0
      /\ requests[r + 1].title = requests[i].title
      /\ requests[r + 1].created_at = requests[i].created_at

\* C26: a row is recorded and saved only if none of its createVote calls got
\* an error response, and a row whose createPost call got an error response
\* is not recorded: memory and file stay as they were.
C26_CommittedOnlyIfAccepted ==
  [][ /\ (pc = "votes" /\ outcome' = "committed") =>
           "rejected vote" \notin Range(calls)
      /\ outcome' = "rejected post" =>
           UNCHANGED << importState, importedPosts, stateFile >> ]_vars

\* the run is over: the loop ended, the cap stopped it, or the bootstrap
\* failed
Ended == pc \in {"done", "capped", "fatal"}

\* C27: every run ends. Within a run the index starts at the loaded cursor
\* and only ever goes up by one, each time back to the head of the loop, so
\* that no row is visited twice; the loop ends past the last row, or at the
\* first cap check that finds the counter at or above maxPosts.
C27_EachRowOnceAndRunEnds ==
  /\ [][ run' = run =>
           /\ pc = "fetch" /\ pc' = "loop" => i' = importState'.cursor
           /\ InRowLoop => /\ i' \in {i, i + 1}
                           /\ i' = i + 1 => pc' = "loop" /\ i < NumRows
           /\ Ended => i' = i
           /\ pc' = "done" => pc = "loop" /\ i >= NumRows
           /\ pc' = "capped" =>
                 /\ pc = "loop" /\ i < NumRows
                 /\ GreaterEq(importedPosts, maxPosts)
           /\ ( /\ pc = "loop" /\ i < NumRows
                /\ GreaterEq(importedPosts, maxPosts) ) => pc' = "capped" ]_vars
  /\ (~Ended) ~> Ended

\* a run that visited every row of a source and ended past the last one,
\* and a run the cap ended before the last row
C27_Witness ==
  \/ /\ pc = "done" /\ i = NumRows /\ importState.cursor = NumRows
     /\ Len(startIds) = 0 /\ run = 1
  \/ pc = "capped" /\ i < NumRows /\ importedPosts > 0

====
